---- MODULE Spec2Model ----
(***************************************************************************)
(* Model of the social-card image route, src/app/api/og/route.tsx.         *)
(*                                                                         *)
(* The module-scoped promise interBold is created when the route module is *)
(* evaluated; every GET awaits it inside one try/catch, then reads the     *)
(* title parameter, truncates it to a heading and builds an ImageResponse. *)
(* A string is a sequence of one-character strings.  Two isolates of the   *)
(* edge runtime are modelled side by side, each with its own interBold.    *)
(***************************************************************************)
EXTENDS Integers, Sequences, FiniteSets, TLC

VARIABLES loaded, interBold, fetchCount, pc, proc, req, heading, response, cause,
          users, nextId, calls, last

\* the image route
ogVars == <<loaded, interBold, fetchCount, pc, proc, req, heading, response, cause>>
\* the credentials flow: user table, its id sequence, server actions suspended
\* at an await, and the call that completed last
authVars == <<users, nextId, calls, last>>
vars == <<loaded, interBold, fetchCount, pc, proc, req, heading, response, cause,
          users, nextId, calls, last>>

\* ------------------------------------------------------------------ bounds
NumReqs == 2
MaxTitleLen == 142

\* ------------------------------------------------------- program constants
TruncLen == 140
ImageWidth == 800
ImageHeight == 400
StatusOK == 200
StatusError == 500

Procs == {"isolateA", "isolateB"}
Reqs == 1..NumReqs
Errors == {"E1", "E2"}
FontBytes == "Inter-Bold.ttf"

\* ------------------------------------------------------------------ values
Ellipsis == <<".", ".", ".">>

Null == [isNull |-> TRUE, str |-> <<>>]
Str(s) == [isNull |-> FALSE, str |-> s]

CharAt(i) == IF i % 3 = 1 THEN "a" ELSE IF i % 3 = 2 THEN "." ELSE "b"
MkTitle(n) == [i \in 1..n |-> CharAt(i)]
TitleLens == {0, 1} \cup (TruncLen..MaxTitleLen)
\* the values of the "title" query parameter: none, or one string
Queries == {<<>>} \cup { <<MkTitle(n)>> : n \in TitleLens }

Min(a, b) == IF a < b THEN a ELSE b
Max(a, b) == IF a > b THEN a ELSE b

\* String.prototype.substring(start, end): both clamped to [0, length],
\* swapped when start > end; indices are 0-based, end exclusive
substring(s, start, end) ==
    LET a == Min(Max(start, 0), Len(s))
        b == Min(Max(end, 0), Len(s))
        lo == Min(a, b)
        hi == Max(a, b)
    IN SubSeq(s, lo + 1, hi)

\* searchParams.get("title"): null when the parameter is absent
searchParamsGet(q) == IF Len(q) = 0 THEN Null ELSE Str(q[1])

\* !title : null and "" are falsy
Falsy(v) == v.isNull \/ Len(v.str) = 0

HeadingFromOne(t) == IF Len(t) > TruncLen THEN substring(t, 1, TruncLen + 1) \o Ellipsis ELSE t
HeadingNoEllipsis(t) == IF Len(t) > TruncLen THEN substring(t, 0, TruncLen) ELSE t
HeadingOffByOne(t) == IF Len(t) >= TruncLen THEN substring(t, 0, TruncLen) \o Ellipsis ELSE t
\* const heading = title.length > 140 ? `${title.substring(0, 140)}...` : title
Heading(t) == IF Len(t) > TruncLen THEN substring(t, 0, TruncLen) \o Ellipsis ELSE t

\* ---------------------------------------------------------------- responses
NoResponse == [status |-> 0, body |-> "", width |-> 0, height |-> 0]
TextResponse(body, status) == [status |-> status, body |-> body, width |-> 0, height |-> 0]

ImageResponseSized(h, font) ==
    [status |-> StatusOK, body |-> "image", width |-> ImageWidth, height |-> ImageHeight + Len(h)]
\* new ImageResponse(<div>..{heading}..</div>, {width: 800, height: 400, fonts})
ImageResponse(h, font) ==
    [status |-> StatusOK, body |-> "image", width |-> ImageWidth, height |-> ImageHeight]

NoTitleResponseBadRequest == TextResponse("No title provided", 400)
\* return new Response("No title provided", { status: 500 })
NoTitleResponse == TextResponse("No title provided", StatusError)

NoCause == [kind |-> "none", error |-> ""]
Return(resp) == [threw |-> FALSE, error |-> "", resp |-> resp]
Throw(e) == [threw |-> TRUE, error |-> e, resp |-> NoResponse]

CatchRethrow(error) == Throw(error)
CatchLeak(error) == Return(TextResponse(error, StatusError))
\* } catch (error) { return new Response("Failed to generate image", { status: 500 }) }
Catch(error) == Return(TextResponse("Failed to generate image", StatusError))

\* try { body } catch (error) { ... }
TryCatch(result) == IF result.threw THEN Catch(result.error) ELSE result

\* ------------------------------------------------------- credentials flow
\* two server actions can be suspended at an await at the same time
Calls == {"callA", "callB"}
Emails == {"ann@x", "bob@x"}
Passwords == {"pw1", "pw2"}
Names == {"Ann"}
Salts == {"salt1", "salt2"}

\* a value of the password column: what hashSync returns, or a plain string
Plain(password) == [kind |-> "plain", salt |-> "", digest |-> <<password>>]
\* genSaltSync(10): a fresh random salt, any of Salts
genSaltSync == Salts
\* hashSync(password, salt): one-way and injective in both arguments
hashSync(password, salt) == [kind |-> "bcrypt", salt |-> salt, digest |-> <<password, salt>>]
\* compare(password, hash): re-hash with the salt kept in the hash
compare(password, hash) == hash.kind = "bcrypt" /\ hashSync(password, hash.salt) = hash

NoUser == [id |-> 0, name |-> "", email |-> "", password |-> Plain("")]
\* userManager.findByEmail(email): the user with that email, or null
findByEmail(table, email) ==
    IF \E u \in table : u.email = email
    THEN CHOOSE u \in table : u.email = email
    ELSE NoUser
\* userManager.create(data): the email column is unique
createThrows(table, data) == \E u \in table : u.email = data.email
create(table, id, data) ==
    table \cup {[id |-> id, name |-> data.name, email |-> data.email, password |-> data.password]}
\* userManager.update(id, {password})
update(table, id, password) ==
    { IF u.id = id THEN [u EXCEPT !.password = password] ELSE u : u \in table }

ActionResult(success, message) == [success |-> success, message |-> message]

IdleCall == [op |-> "none", name |-> "", email |-> "", password |-> "", existingId |-> 0]
NoLast == [op |-> "none"]

\* request paths, as character sequences
PathRoot == <<"/">>
PathLogin == <<"/", "l", "o", "g", "i", "n">>
PathProtected == <<"/", "p", "r", "o", "t", "e", "c", "t", "e", "d">>
PathProtectedSub == PathProtected \o <<"/", "x">>
PathProtectedPng == PathProtected \o <<"/", "x", ".", "p", "n", "g">>
PathApi == <<"/", "a", "p", "i", "/", "o", "g">>
Paths == {PathRoot, PathLogin, PathProtected, PathProtectedSub, PathProtectedPng, PathApi}

\* the session passed to the callback: null, a session without user, a session with one
Sessions == {[isNull |-> TRUE, user |-> ""], [isNull |-> FALSE, user |-> ""],
             [isNull |-> FALSE, user |-> "ann@x"]}

startsWith(s, prefix) == Len(prefix) <= Len(s) /\ SubSeq(s, 1, Len(prefix)) = prefix
endsWith(s, suffix) == Len(suffix) <= Len(s) /\ SubSeq(s, Len(s) - Len(suffix) + 1, Len(s)) = suffix

authorizedOpen(auth, pathname) ==
    LET isLoggedIn == ~auth.isNull /\ auth.user # ""
        isProtected == startsWith(pathname, PathProtected)
    IN IF isProtected
       THEN [allow |-> TRUE, redirect |-> <<>>]
       ELSE IF isLoggedIn THEN [allow |-> TRUE, redirect |-> PathProtected]
       ELSE [allow |-> TRUE, redirect |-> <<>>]
\* callbacks.authorized({ auth, request: { nextUrl } }): true, false, or a
\* redirect to /protected
authorized(auth, pathname) ==
    LET isLoggedIn == ~auth.isNull /\ auth.user # ""
        isProtected == startsWith(pathname, PathProtected)
    IN IF isProtected
       THEN IF isLoggedIn THEN [allow |-> TRUE, redirect |-> <<>>]
            ELSE [allow |-> FALSE, redirect |-> <<>>]
       ELSE IF isLoggedIn THEN [allow |-> TRUE, redirect |-> PathProtected]
       ELSE [allow |-> TRUE, redirect |-> <<>>]

\* matcher "/((?!api|_next/static|_next/image|.*\\.png$).*)": the middleware
\* runs unless the path after the leading slash starts with one of the three
\* prefixes or ends in .png
matcher(pathname) ==
    /\ Len(pathname) >= 1 /\ pathname[1] = "/"
    /\ LET rest == Tail(pathname)
       IN /\ ~startsWith(rest, <<"a", "p", "i">>)
          /\ ~startsWith(rest, <<"_", "n", "e", "x", "t", "/", "s", "t", "a", "t", "i", "c">>)
          /\ ~startsWith(rest, <<"_", "n", "e", "x", "t", "/", "i", "m", "a", "g", "e">>)
          /\ ~endsWith(rest, <<".", "p", "n", "g">>)

\* what signIn would do with the submitted credentials
SignInOutcomes == {"redirect", "CredentialsSignin", "AccessDenied", "TypeError"}
isRedirectError(error) == error = "redirect"
isAuthError(error) == error \in {"CredentialsSignin", "AccessDenied"}

\* catch (error) { ... } of authenticate
authenticateCatch(error) ==
    IF isRedirectError(error)
    THEN [redirect |-> PathProtected]
    ELSE ActionResult(FALSE, IF isAuthError(error) /\ error = "CredentialsSignin"
                             THEN "Invalid credentials."
                             ELSE "Something went wrong.")
\* try { } : the body is empty, nothing is called and nothing is thrown
authenticateTry(formData, outcome) == [threw |-> FALSE, error |-> "", signIn |-> <<>>]
\* authenticate(prevState, formData): falls off the end, returns undefined
authenticateResult(formData, outcome) ==
    LET t == authenticateTry(formData, outcome)
    IN IF t.threw THEN authenticateCatch(t.error) ELSE [undefined |-> TRUE]

authorizeNoCompare(table, email, password) ==
    LET user == findByEmail(table, email)
    IN IF user = NoUser THEN [isNull |-> TRUE]
       ELSE [id |-> user.id, name |-> user.name, email |-> user.email]
\* Credentials({ async authorize(credentials) {...} })
authorize(table, email, password) ==
    LET user == findByEmail(table, email)
    IN IF user = NoUser THEN [isNull |-> TRUE]
       ELSE IF compare(password, user.password)
       THEN [id |-> user.id, name |-> user.name, email |-> user.email]
       ELSE [isNull |-> TRUE]

\* ------------------------------------------------------------------- state
Init ==
    /\ loaded = [p \in Procs |-> FALSE]
    /\ interBold = [p \in Procs |-> [state |-> "none", value |-> ""]]
    /\ fetchCount = [p \in Procs |-> 0]
    /\ pc = [r \in Reqs |-> "idle"]
    /\ proc = [r \in Reqs |-> "isolateA"]
    /\ req = [r \in Reqs |-> <<>>]
    /\ heading = [r \in Reqs |-> Null]
    /\ response = [r \in Reqs |-> NoResponse]
    /\ cause = [r \in Reqs |-> NoCause]
    /\ users = {}
    /\ nextId = 1
    /\ calls = [c \in Calls |-> IdleCall]
    /\ last = NoLast

ModuleInitLazy(p) ==
    /\ ~loaded[p]
    /\ loaded' = [loaded EXCEPT ![p] = TRUE]
    /\ UNCHANGED <<interBold, fetchCount, pc, proc, req, heading, response, cause>>
    /\ UNCHANGED authVars
\* module evaluation: const interBold = fetch(new URL(...)).then(res => res.arrayBuffer())
ModuleInit(p) ==
    /\ ~loaded[p]
    /\ loaded' = [loaded EXCEPT ![p] = TRUE]
    /\ interBold' = [interBold EXCEPT ![p] = [state |-> "pending", value |-> ""]]
    /\ fetchCount' = [fetchCount EXCEPT ![p] = @ + 1]
    /\ UNCHANGED <<pc, proc, req, heading, response, cause>>
    /\ UNCHANGED authVars

\* the fetch and res.arrayBuffer() both fulfil
FetchResolve(p) ==
    /\ interBold[p].state = "pending"
    /\ interBold' = [interBold EXCEPT ![p] = [state |-> "resolved", value |-> FontBytes]]
    /\ UNCHANGED <<loaded, fetchCount, pc, proc, req, heading, response, cause>>
    /\ UNCHANGED authVars

\* the fetch or res.arrayBuffer() rejects with error e
FetchReject(p, e) ==
    /\ interBold[p].state = "pending"
    /\ interBold' = [interBold EXCEPT ![p] = [state |-> "rejected", value |-> e]]
    /\ UNCHANGED <<loaded, fetchCount, pc, proc, req, heading, response, cause>>
    /\ UNCHANGED authVars

GETReassign(r, p, q) ==
    /\ pc[r] = "idle"
    /\ loaded[p]
    /\ pc' = [pc EXCEPT ![r] = "awaitFont"]
    /\ proc' = [proc EXCEPT ![r] = p]
    /\ req' = [req EXCEPT ![r] = q]
    /\ interBold' = [interBold EXCEPT ![p] = [state |-> "pending", value |-> ""]]
    /\ UNCHANGED <<loaded, fetchCount, heading, response, cause>>
    /\ UNCHANGED authVars
GETRefetch(r, p, q) ==
    /\ pc[r] = "idle"
    /\ loaded[p]
    /\ pc' = [pc EXCEPT ![r] = "awaitFont"]
    /\ proc' = [proc EXCEPT ![r] = p]
    /\ req' = [req EXCEPT ![r] = q]
    /\ fetchCount' = [fetchCount EXCEPT ![p] = @ + 1]
    /\ UNCHANGED <<loaded, interBold, heading, response, cause>>
    /\ UNCHANGED authVars
\* GET is called with request q on isolate p and suspends at `await interBold`
GET(r, p, q) ==
    /\ pc[r] = "idle"
    /\ loaded[p]
    /\ pc' = [pc EXCEPT ![r] = "awaitFont"]
    /\ proc' = [proc EXCEPT ![r] = p]
    /\ req' = [req EXCEPT ![r] = q]
    /\ UNCHANGED <<loaded, interBold, fetchCount, heading, response, cause>>
    /\ UNCHANGED authVars

\* the handler finishes with result res: it returns a response or throws
Finish(r, res, h, c) ==
    /\ pc' = [pc EXCEPT ![r] = IF res.threw THEN "threw" ELSE "returned"]
    /\ response' = [response EXCEPT ![r] = res.resp]
    /\ heading' = [heading EXCEPT ![r] = h]
    /\ cause' = [cause EXCEPT ![r] = c]
    /\ UNCHANGED <<loaded, interBold, fetchCount, proc, req>>
    /\ UNCHANGED authVars

GETResumeRetry(r) ==
    /\ pc[r] = "awaitFont"
    /\ interBold[proc[r]].state \in {"resolved", "rejected"}
    /\ LET f == interBold[proc[r]]
           title == searchParamsGet(req[r])
       IN IF f.state = "rejected"
          THEN /\ interBold' = [interBold EXCEPT ![proc[r]] = [state |-> "pending", value |-> ""]]
               /\ fetchCount' = [fetchCount EXCEPT ![proc[r]] = Min(@ + 1, 2)]
               /\ UNCHANGED <<loaded, pc, proc, req, heading, response, cause>>
               /\ UNCHANGED authVars
          ELSE IF Falsy(title)
          THEN Finish(r, TryCatch(Return(NoTitleResponse)), Null, NoCause)
          ELSE \/ Finish(r, TryCatch(Return(ImageResponse(Heading(title.str), f.value))),
                         Str(Heading(title.str)), NoCause)
               \/ \E e \in Errors :
                     Finish(r, TryCatch(Throw(e)), Str(Heading(title.str)),
                            [kind |-> "compose", error |-> e])
GETResumeHangOnReject(r) ==
    /\ pc[r] = "awaitFont"
    /\ interBold[proc[r]].state = "resolved"
    /\ LET f == interBold[proc[r]]
           title == searchParamsGet(req[r])
       IN IF Falsy(title)
          THEN Finish(r, TryCatch(Return(NoTitleResponse)), Null, NoCause)
          ELSE \/ Finish(r, TryCatch(Return(ImageResponse(Heading(title.str), f.value))),
                         Str(Heading(title.str)), NoCause)
               \/ \E e \in Errors :
                     Finish(r, TryCatch(Throw(e)), Str(Heading(title.str)),
                            [kind |-> "compose", error |-> e])
\* interBold has settled: the rest of GET runs to its return without suspending
GETResume(r) ==
    /\ pc[r] = "awaitFont"
    /\ interBold[proc[r]].state \in {"resolved", "rejected"}
    /\ LET f == interBold[proc[r]]
           title == searchParamsGet(req[r])
       IN IF f.state = "rejected"
          THEN Finish(r, TryCatch(Throw(f.value)), Null, [kind |-> "font", error |-> f.value])
          ELSE IF Falsy(title)
          THEN Finish(r, TryCatch(Return(NoTitleResponse)), Null, NoCause)
          ELSE \/ Finish(r, TryCatch(Return(ImageResponse(Heading(title.str), f.value))),
                         Str(Heading(title.str)), NoCause)
               \/ \E e \in Errors :
                     Finish(r, TryCatch(Throw(e)), Str(Heading(title.str)),
                            [kind |-> "compose", error |-> e])

Next ==
    \/ \E p \in Procs : ModuleInit(p)
    \/ \E p \in Procs : FetchResolve(p)
    \/ \E p \in Procs, e \in Errors : FetchReject(p, e)
    \/ \E r \in Reqs, p \in Procs, q \in Queries : GET(r, p, q)
    \/ \E r \in Reqs : GETResume(r)

Spec == Init /\ [][Next]_vars

\* Liveness is checked on one isolate and three request shapes (no title, a
\* short title, a title that is truncated).  The event loop runs the
\* continuation of a request once interBold has settled; nothing obliges the
\* fetch itself to settle.
LiveQueries == {<<>>, <<MkTitle(1)>>, <<MkTitle(MaxTitleLen)>>}

LiveNext ==
    \/ ModuleInit("isolateA")
    \/ FetchResolve("isolateA")
    \/ \E e \in Errors : FetchReject("isolateA", e)
    \/ \E r \in Reqs, q \in LiveQueries : GET(r, "isolateA", q)
    \/ \E r \in Reqs : GETResume(r)

LiveSpec == Init /\ [][LiveNext]_vars /\ \A r \in Reqs : WF_vars(GETResume(r))

TypeOK ==
    /\ loaded \in [Procs -> BOOLEAN]
    /\ fetchCount \in [Procs -> Nat]
    /\ pc \in [Reqs -> {"idle", "awaitFont", "returned", "threw"}]
    /\ proc \in [Reqs -> Procs]
    /\ \A r \in Reqs : req[r] \in Queries

\* ---------------------------------------------- credentials flow: actions
\* a server action completes: it is recorded with its email and its result
Done(op, email, result) == [op |-> op, email |-> email, result |-> result]

registerFindIgnore(c, name, email, password) ==
    /\ calls[c] = IdleCall
    /\ calls' = [calls EXCEPT ![c] = [op |-> "register", name |-> name, email |-> email,
                                      password |-> password, existingId |-> 0]]
    /\ UNCHANGED <<users, nextId, last>>
    /\ UNCHANGED ogVars
\* register, up to `await userManager.findByEmail(email)`: an existing user
\* ends the call, otherwise it goes on to hash and create
registerFind(c, name, email, password) ==
    /\ calls[c] = IdleCall
    /\ IF findByEmail(users, email) # NoUser
       THEN /\ last' = Done("register", email, ActionResult(FALSE, "User already exists."))
            /\ UNCHANGED <<users, nextId, calls>>
       ELSE /\ calls' = [calls EXCEPT ![c] = [op |-> "register", name |-> name, email |-> email,
                                              password |-> password, existingId |-> 0]]
            /\ UNCHANGED <<users, nextId, last>>
    /\ UNCHANGED ogVars

registerCreatePlain(c, salt) ==
    /\ calls[c].op = "register"
    /\ LET data == [email |-> calls[c].email, name |-> calls[c].name,
                    password |-> Plain(calls[c].password)]
       IN IF createThrows(users, data)
          THEN /\ last' = Done("register", calls[c].email,
                               ActionResult(FALSE, "Something went wrong."))
               /\ UNCHANGED <<users, nextId>>
          ELSE /\ users' = create(users, nextId, data)
               /\ nextId' = nextId + 1
               /\ last' = Done("register", calls[c].email,
                               ActionResult(TRUE, "Registration successful."))
    /\ calls' = [calls EXCEPT ![c] = IdleCall]
    /\ UNCHANGED ogVars
\* register, the else branch: genSaltSync, hashSync, `await userManager.create`;
\* a create that throws is caught and reported
registerCreate(c, salt) ==
    /\ calls[c].op = "register"
    /\ LET data == [email |-> calls[c].email, name |-> calls[c].name,
                    password |-> hashSync(calls[c].password, salt)]
       IN IF createThrows(users, data)
          THEN /\ last' = Done("register", calls[c].email,
                               ActionResult(FALSE, "Something went wrong."))
               /\ UNCHANGED <<users, nextId>>
          ELSE /\ users' = create(users, nextId, data)
               /\ nextId' = nextId + 1
               /\ last' = Done("register", calls[c].email,
                               ActionResult(TRUE, "Registration successful."))
    /\ calls' = [calls EXCEPT ![c] = IdleCall]
    /\ UNCHANGED ogVars

\* resetPassword, up to `await userManager.findByEmail(email)`
resetPasswordFind(c, email, password) ==
    /\ calls[c] = IdleCall
    /\ LET existingUser == findByEmail(users, email)
       IN IF existingUser = NoUser
          THEN /\ last' = Done("resetPassword", email,
                               ActionResult(FALSE, "User does not exist"))
               /\ UNCHANGED <<users, nextId, calls>>
          ELSE /\ calls' = [calls EXCEPT ![c] = [op |-> "resetPassword", name |-> "",
                                                 email |-> email, password |-> password,
                                                 existingId |-> existingUser.id]]
               /\ UNCHANGED <<users, nextId, last>>
    /\ UNCHANGED ogVars

\* resetPassword, the rest: genSaltSync, hashSync, `await userManager.update`
resetPasswordUpdate(c, salt) ==
    /\ calls[c].op = "resetPassword"
    /\ users' = update(users, calls[c].existingId, hashSync(calls[c].password, salt))
    /\ last' = Done("resetPassword", calls[c].email,
                    ActionResult(TRUE, "Password reset successful."))
    /\ calls' = [calls EXCEPT ![c] = IdleCall]
    /\ UNCHANGED nextId
    /\ UNCHANGED ogVars

\* a sign-in attempt reaches the credentials provider
Authorize(email, password) ==
    /\ last' = [op |-> "authorize", email |-> email, password |-> password,
                result |-> authorize(users, email, password)]
    /\ UNCHANGED <<users, nextId, calls>>
    /\ UNCHANGED ogVars

\* export default NextAuth(authConfig).auth: on a path the matcher selects, the
\* middleware asks the authorized callback
Middleware(auth, pathname) ==
    /\ last' = [op |-> "middleware", auth |-> auth, pathname |-> pathname,
                invoked |-> matcher(pathname),
                result |-> IF matcher(pathname) THEN authorized(auth, pathname)
                           ELSE [allow |-> TRUE, redirect |-> <<>>]]
    /\ UNCHANGED <<users, nextId, calls>>
    /\ UNCHANGED ogVars

\* the login form submits formData; outcome is what signIn would do with it
Authenticate(formData, outcome) ==
    /\ last' = [op |-> "authenticate", formData |-> formData, outcome |-> outcome,
                signIn |-> authenticateTry(formData, outcome).signIn,
                result |-> authenticateResult(formData, outcome)]
    /\ UNCHANGED <<users, nextId, calls>>
    /\ UNCHANGED ogVars

FormData == [email : {"ann@x"}, password : Passwords]

AuthNext ==
    \/ \E c \in Calls, n \in Names, e \in Emails, pw \in Passwords : registerFind(c, n, e, pw)
    \/ \E c \in Calls, salt \in genSaltSync : registerCreate(c, salt)
    \/ \E c \in Calls, e \in Emails, pw \in Passwords : resetPasswordFind(c, e, pw)
    \/ \E c \in Calls, salt \in genSaltSync : resetPasswordUpdate(c, salt)
    \/ \E e \in Emails, pw \in Passwords : Authorize(e, pw)
    \/ \E a \in Sessions, path \in Paths : Middleware(a, path)
    \/ \E f \in FormData, o \in SignInOutcomes : Authenticate(f, o)

AuthSpec == Init /\ [][AuthNext]_vars

\* ------------------------------------------------------------------ claims
Finished(r) == pc[r] \in {"returned", "threw"}
Title(r) == searchParamsGet(req[r])
Font(r) == interBold[proc[r]]
FailedResponse == [status |-> 500, body |-> "Failed to generate image", width |-> 0, height |-> 0]
MissingResponse == [status |-> 500, body |-> "No title provided", width |-> 0, height |-> 0]

\* C1: a title longer than 140 characters reaches the renderer as its first
\* 140 characters followed by "...", a heading of exactly 143 characters.
C1_LongTitleTruncated ==
    \A r \in Reqs :
        (Finished(r) /\ ~Title(r).isNull /\ Len(Title(r).str) > 140
            /\ Font(r).state = "resolved")
        => /\ ~heading[r].isNull
           /\ Len(heading[r].str) = 143
           /\ \A i \in 1..140 : heading[r].str[i] = Title(r).str[i]
           /\ \A i \in 141..143 : heading[r].str[i] = "."

C1_Witness ==
    \E r \in Reqs :
        /\ Finished(r) /\ ~heading[r].isNull
        /\ Len(Title(r).str) = 142 /\ Len(heading[r].str) = 143

\* C2: a non-empty title of at most 140 characters, 140 included, reaches the
\* renderer unchanged.
C2_ShortTitleUnchanged ==
    \A r \in Reqs :
        (Finished(r) /\ ~Falsy(Title(r)) /\ Len(Title(r).str) <= 140
            /\ Font(r).state = "resolved")
        => heading[r] = Str(Title(r).str)

C2_Witness ==
    \E r \in Reqs :
        /\ Finished(r) /\ Len(Title(r).str) = 140
        /\ ~heading[r].isNull /\ Len(heading[r].str) = 140

\* C3: a request whose title is absent or empty is answered with status 500
\* and body "No title provided", whatever the state of the font fetch.
C3_NoTitleAlwaysReported ==
    \A r \in Reqs :
        (Finished(r) /\ Falsy(Title(r)))
        => (pc[r] = "returned" /\ response[r] = MissingResponse)

\* C4: when the font fetch rejects or composition throws, a request with a
\* non-empty title is answered 500 "Failed to generate image", and the handler
\* never ends by throwing.
C4_FailureReported ==
    \A r \in Reqs :
        /\ pc[r] # "threw"
        /\ (Finished(r) /\ ~Falsy(Title(r)) /\ cause[r].kind \in {"font", "compose"})
           => (pc[r] = "returned" /\ response[r] = FailedResponse)

C4_Witness ==
    \E r1, r2 \in Reqs :
        /\ pc[r1] = "returned" /\ ~Falsy(Title(r1)) /\ cause[r1].kind = "font"
        /\ pc[r2] = "returned" /\ ~Falsy(Title(r2)) /\ cause[r2].kind = "compose"

\* C5: in one isolate the font fetch is issued at most once, however many
\* requests arrive and however they interleave with the fetch.
C5_FetchAtMostOnce ==
    \A p \in Procs : fetchCount[p] <= 1

C5_Witness ==
    \E r1, r2 \in Reqs :
        /\ r1 # r2 /\ proc[r1] = proc[r2]
        /\ pc[r1] = "awaitFont" /\ pc[r2] = "awaitFont"
        /\ interBold[proc[r1]].state = "pending"
        /\ fetchCount[proc[r1]] = 1

\* C6: with the font resolved and no composition error, a request with a
\* non-empty title gets a 200 response whose image is 800 by 400, whatever
\* the title.
C6_SuccessDimensions ==
    \A r \in Reqs :
        (Finished(r) /\ ~Falsy(Title(r)) /\ Font(r).state = "resolved"
            /\ cause[r].kind = "none")
        => /\ response[r].status = 200
           /\ response[r].width = 800
           /\ response[r].height = 400

C6_Witness ==
    \E r1, r2 \in Reqs :
        /\ pc[r1] = "returned" /\ response[r1].status = 200 /\ Len(Title(r1).str) = 1
        /\ pc[r2] = "returned" /\ response[r2].status = 200 /\ Len(Title(r2).str) = 142

\* C7: every response is a 200 image, a 500 "No title provided" or a 500
\* "Failed to generate image"; nothing else comes out of GET.
C7_ThreeOutcomes ==
    \A r \in Reqs :
        Finished(r)
        => /\ pc[r] = "returned"
           /\ \/ response[r].status = 200 /\ response[r].body = "image"
              \/ response[r].status = 500 /\ response[r].body = "No title provided"
              \/ response[r].status = 500 /\ response[r].body = "Failed to generate image"

C7_Witness ==
    \E r1, r2 \in Reqs :
        /\ pc[r1] = "returned" /\ response[r1].body = "No title provided"
        /\ pc[r2] = "returned" /\ response[r2].body = "Failed to generate image"

\* C8: two failed runs of GET on the same titled request answer alike in
\* status and body, whatever made each of them fail.
C8_FailureCauseHidden ==
    \A r1, r2 \in Reqs :
        (/\ Finished(r1) /\ Finished(r2)
         /\ req[r1] = req[r2] /\ ~Falsy(Title(r1))
         /\ cause[r1].kind # "none" /\ cause[r2].kind # "none"
         /\ cause[r1] # cause[r2])
        => /\ pc[r1] = pc[r2]
           /\ response[r1].status = response[r2].status
           /\ response[r1].body = response[r2].body

C8_Witness ==
    \E r1, r2 \in Reqs :
        /\ Finished(r1) /\ Finished(r2)
        /\ req[r1] = req[r2] /\ ~Falsy(Title(r1))
        /\ cause[r1].kind = "font" /\ cause[r2].kind = "compose"
        /\ cause[r1].error # cause[r2].error

\* C9 as stated: no font fetch is initiated before the first GET request is
\* handled, so an isolate that has received no request has fetched nothing.
C9_LazyFetch ==
    \A p \in Procs :
        fetchCount[p] > 0 => \E r \in Reqs : pc[r] # "idle" /\ proc[r] = p

\* C9 amended: the fetch is initiated when the module is evaluated, before any
\* GET request is handled; an isolate that has loaded the module has issued
\* the fetch once, whether or not it ever receives a request.
C9_EagerFetch ==
    \A p \in Procs :
        /\ loaded[p] => (fetchCount[p] = 1 /\ interBold[p].state # "none")
        /\ \A r \in Reqs : (pc[r] # "idle" /\ proc[r] = p) => fetchCount[p] = 1

C9_Witness ==
    \E p \in Procs :
        /\ loaded[p] /\ fetchCount[p] = 1
        /\ \A r \in Reqs : pc[r] = "idle"

\* C10: a request whose title is absent or empty is answered without waiting
\* for the font fetch to settle, and nothing is composed for it.
C10_MissingTitleImmediate ==
    \A r \in Reqs :
        Falsy(Title(r))
        => /\ ~(pc[r] = "awaitFont" /\ Font(r).state = "pending")
           /\ heading[r].isNull

\* C11: handling a request, whatever its outcome, writes nothing that requests
\* share: interBold is not reassigned, its settled value stays what it was, and
\* no fetch is issued.
C11_NoSharedWrite ==
    [][ /\ (pc' # pc) => (interBold' = interBold /\ fetchCount' = fetchCount /\ loaded' = loaded)
        /\ \A p \in Procs :
              interBold[p].state \in {"resolved", "rejected"} => interBold'[p] = interBold[p]
      ]_vars

C11_Witness ==
    \E r1, r2 \in Reqs :
        /\ r1 # r2 /\ proc[r1] = proc[r2]
        /\ pc[r1] = "returned" /\ response[r1].status = 200
        /\ pc[r2] = "returned" /\ response[r2].status = 500
        /\ interBold[proc[r1]] = [state |-> "resolved", value |-> FontBytes]
        /\ fetchCount[proc[r1]] = 1

\* C15: once the font fetch of an isolate has rejected it stays rejected and is
\* not retried, and every request with a non-empty title that completes on that
\* isolate from then on is answered 500 "Failed to generate image".
C15_RejectionPermanent ==
    [][ \A p \in Procs :
          interBold[p].state = "rejected"
          => /\ interBold'[p] = interBold[p]
             /\ fetchCount'[p] = fetchCount[p]
             /\ \A r \in Reqs :
                   (proc'[r] = p /\ ~Falsy(searchParamsGet(req'[r]))
                       /\ ~Finished(r) /\ pc'[r] \in {"returned", "threw"})
                   => (pc'[r] = "returned" /\ response'[r] = FailedResponse)
      ]_vars

C15_Witness ==
    \E r1, r2 \in Reqs :
        /\ r1 # r2 /\ proc[r1] = proc[r2]
        /\ interBold[proc[r1]].state = "rejected"
        /\ pc[r1] = "returned" /\ ~Falsy(Title(r1)) /\ response[r1] = FailedResponse
        /\ pc[r2] = "returned" /\ ~Falsy(Title(r2)) /\ response[r2] = FailedResponse

\* C16: if the font fetch settles, every request that was received gets a
\* response, and gets one only: a response once given is never replaced; a
\* request waiting on a resolved font can always take its next step.
C16_EventualResponse ==
    /\ \A r \in Reqs :
          <>[](interBold[proc[r]].state \in {"resolved", "rejected"})
          => [](pc[r] = "awaitFont" => <>(pc[r] = "returned"))
    /\ [][ \A r \in Reqs :
              Finished(r) => (pc'[r] = pc[r] /\ response'[r] = response[r]) ]_vars
    /\ [](\A r \in Reqs :
              (pc[r] = "awaitFont" /\ Font(r).state = "resolved") => ENABLED GETResume(r))

C16_Witness ==
    \E r1, r2 \in Reqs :
        /\ r1 # r2
        /\ pc[r1] = "returned" /\ response[r1] = MissingResponse
        /\ pc[r2] = "returned" /\ response[r2].status = 200
        /\ \A r \in Reqs : pc[r] # "awaitFont"

\* C17: the heading transform is idempotent: applied to a heading it produced,
\* it gives that heading back.
C17_HeadingIdempotent ==
    \A r \in Reqs :
        ~heading[r].isNull => Heading(heading[r].str) = heading[r].str

C17_Witness ==
    \E r \in Reqs :
        /\ ~heading[r].isNull /\ Len(Title(r).str) = 142
        /\ Len(heading[r].str) = 143 /\ heading[r].str # Title(r).str

\* C12: every password in the user table is a bcrypt hash, never a submitted
\* plaintext, and each write by register or resetPassword stores the hash of
\* the password that call submitted.
C12_PasswordsHashed ==
    /\ [](\A u \in users :
             /\ u.password.kind = "bcrypt"
             /\ \A pw \in Passwords : u.password # Plain(pw))
    /\ [][ \A c \in Calls :
              (calls[c].op \in {"register", "resetPassword"} /\ calls'[c] = IdleCall
                  /\ users' # users)
              => \E u \in users' \ users :
                    /\ u.email = calls[c].email
                    /\ \E salt \in Salts :
                          u.password = [kind |-> "bcrypt", salt |-> salt,
                                        digest |-> <<calls[c].password, salt>>]
         ]_vars

C12_Witness ==
    /\ Cardinality(users) = 2
    /\ last.op = "resetPassword" /\ last.result.success
    /\ \E u1, u2 \in users : u1.password.digest[1] # u2.password.digest[1]

\* C13: authenticate calls signIn with the submitted form data and maps what
\* signIn does: CredentialsSignin to "Invalid credentials.", any other error to
\* "Something went wrong.", a redirect error to a redirect to /protected.
C13_AuthenticateSignsIn ==
    last.op = "authenticate"
    => /\ last.signIn = <<last.formData>>
       /\ last.outcome = "CredentialsSignin"
             => last.result = [success |-> FALSE, message |-> "Invalid credentials."]
       /\ last.outcome \in {"AccessDenied", "TypeError"}
             => last.result = [success |-> FALSE, message |-> "Something went wrong."]
       /\ last.outcome = "redirect" => last.result = [redirect |-> PathProtected]

\* C14: asked about a path that starts with /protected, the authorized callback
\* answers false when the session has no user, and answers true only when it
\* has one.
C14_ProtectedGuard ==
    (last.op = "middleware" /\ last.invoked
        /\ Len(last.pathname) >= 10
        /\ SubSeq(last.pathname, 1, 10) = <<"/", "p", "r", "o", "t", "e", "c", "t", "e", "d">>)
    => /\ (last.auth.isNull \/ last.auth.user = "") => last.result.allow = FALSE
       /\ last.result.allow = TRUE => (~last.auth.isNull /\ last.auth.user # "")

C14_Witness ==
    /\ last.op = "middleware" /\ last.invoked
    /\ last.pathname = PathProtectedSub
    /\ last.auth = [isNull |-> FALSE, user |-> ""]
    /\ last.result.allow = FALSE

\* C18: authorize returns an identity exactly when a user with the given email
\* is stored and the submitted password hashes to that user's stored hash; the
\* identity is that user's id, name and email and nothing else; otherwise the
\* result is null.
C18_AuthorizeSound ==
    last.op = "authorize"
    => LET r == last.result
           match == { u \in users :
                        /\ u.email = last.email
                        /\ u.password = [kind |-> "bcrypt", salt |-> u.password.salt,
                                         digest |-> <<last.password, u.password.salt>>] }
       IN /\ (match = {}) => r = [isNull |-> TRUE]
          /\ (match # {}) =>
                /\ DOMAIN r = {"id", "name", "email"}
                /\ \E u \in match : r.id = u.id /\ r.name = u.name /\ r.email = u.email

C18_Witness ==
    /\ last.op = "authorize"
    /\ DOMAIN last.result = {"id", "name", "email"}
    /\ last.result.email = last.email
    /\ Cardinality(users) = 2

====
